---- MODULE Spec2Model ----
(***************************************************************************)
(* Model of the real-time control path of the ME-507 reaction-wheel        *)
(* controller: the edge-capture interrupt, the speed estimator             *)
(* (task_readActual), the torque integrator (task_calcSetpoint and         *)
(* Controller::calculate_omega), the command channels, the speed control   *)
(* state machine (task_speedControl) driving the DRV8308 pins, and the     *)
(* register protocol of the driver chip (drv_write, drv_read).             *)
(*                                                                         *)
(* Speeds are whole RPM.  The edge intervals the model draws divide        *)
(* 15 000 000 exactly, so the float quotient of the source and the integer *)
(* quotient of the model agree on them.  32-bit timer values are pairs     *)
(* <<high half, low half>> of 16-bit halves.                               *)
(***************************************************************************)
EXTENDS Integers, Sequences, FiniteSets, TLC

VARIABLES
    micros,         \* the free-running microsecond timer, 32 bits
    edge_time,      \* Queue<uint32_t> edge_time (4)
    isr_pending,    \* <<>> or <<t>>: a handleISR call stuck in put() on a full queue
    nEdges,         \* rising edges seen so far (bounds the run)
    est_pc,         \* task_readActual: "start" | "run"
    last_time,      \* task_readActual local
    speed_actual,   \* Share<float> speed_actual
    pubs,           \* number of speed_actual.put calls so far
    speed_cmd,      \* Queue<float> speed_cmd (2)
    sent,           \* every value ever enqueued on speed_cmd, in order
    deq,            \* every value ever dequeued from speed_cmd, in order
    sc_pc,          \* task_speedControl: "start" | "read" | "dispatch"
    speed_state,    \* task_speedControl local
    speed_command,  \* task_speedControl local
    speed_real,     \* task_speedControl local
    direction,      \* task_speedControl local
    PIN_DIR,        \* level of the direction pin
    PIN_BRAKE,      \* level of the brake pin
    clkin,          \* frequency written to the CLKIN tone channel, in mHz
    hw,             \* driver calls made by the latest state machine iteration
    edge_gap,       \* per timestamp queued or pending: ticks since its predecessor
    millis,         \* the millisecond timer, 32 bits
    torque_cmd,     \* Queue<float> torque_cmd (2), in micro N m
    nTorque,        \* torque commands sent so far (bounds the run)
    cs_pc,          \* task_calcSetpoint: "get" | "put"
    omega,          \* task_calcSetpoint local: the RPM calculate_omega returned
    last_update_ms, \* Controller member
    omega_rad_s,    \* Controller member, in mrad/s
    dt_s,           \* calculate_omega local: the integration step, in ms
    runs,           \* every calculate_omega call so far: inputs and result
    PIN_SCS,        \* level of the chip select pin
    spi_bus,        \* what has happened on the serial bus, in order
    msb,            \* Driver member: first byte shifted in by drv_read
    lsb,            \* Driver member: second byte shifted in by drv_read
    data16,         \* value returned by the latest drv_read
    spi_calls,      \* every drv_write and drv_read call so far, in order
    setup_pc        \* setup(): register transactions Driver::begin has made;
                    \* SetupDone once the tasks are created

vars == <<micros, edge_time, isr_pending, nEdges, est_pc, last_time,
          speed_actual, pubs, speed_cmd, sent, deq, sc_pc, speed_state,
          speed_command, speed_real, direction, PIN_DIR, PIN_BRAKE, clkin, hw,
          edge_gap, millis, torque_cmd, nTorque, cs_pc, omega, last_update_ms,
          omega_rad_s, dt_s, runs, PIN_SCS, spi_bus, msb, lsb, data16,
          spi_calls, setup_pc>>

estVars == <<est_pc, last_time, speed_actual, pubs>>
intVars == <<millis, torque_cmd, nTorque, cs_pc, omega, last_update_ms,
             omega_rad_s, dt_s, runs>>
spiVars == <<PIN_SCS, spi_bus, msb, lsb, data16, spi_calls, setup_pc>>
scVars == <<sc_pc, speed_state, speed_command, speed_real, direction,
            PIN_DIR, PIN_BRAKE, clkin, hw>>

(***************************************************************************)
(* Bounds of the run and the inputs drawn by the environment.              *)
(***************************************************************************)
MaxEdges == 3
MaxSpeedCmds == 2
MaxBurst == 5
MaxTorqueCmds == 2
MaxIntEdges == 2
MaxChanCmds == 5
MaxSpi == 2
MaxSysEdges == 2
MaxSysCmds == 2
MaxLiveCmds == 2

\* speed commands while the wheel follows the drive: two small ones and
\* two large ones
LiveCmds == {-10, 10, -100, 100}

\* the most the measured speed changes between two iterations of the
\* state machine, in RPM
PlantStep == 20

\* the whole system: torque commands of -0.001712 N m and -1 N m, 2 s
\* apart, and edges 125 ms apart or with the same timestamp
SysTorques == {-1712, -1000000}
SysGaps == {2000}
SysIntervals == {0, 125000}

\* register addresses passed to drv_write and drv_read: 0x03, 0x2A, and two
\* with the top bit set, 0x83 and 0xFF
Addrs == {3, 42, 131, 255}

\* 16-bit register values: 0x0000, 0x0FC2, 0xFFFF
Messages == {0, 4034, 65535}

\* bytes the DRV8308 shifts out on MISO: 0x00, 0x0F, 0xC2
MisoBytes == {0, 15, 194}

\* torque commands the command source sends, in micro N m
Torques == {0, 1712, 1000000}

\* milliseconds between a torque command and the event before it
TorqueGaps == {0, 500, 2000}

\* edge intervals while the integrator runs: 3000 RPM and 120 RPM
IntIntervals == {5000, 125000}

\* the one edge interval and the one torque command that fill the channels
ChanIntervals == {125000}
ChanTorques == {0}
ChanGaps == {500}

\* intervals between the rising edges of a burst, in microseconds: 0,
\* 2500 RPM and 120 RPM
BurstIntervals == {0, 6000, 125000}

\* intervals between rising edges, in microseconds: 0 (a repeated
\* timestamp), 120 RPM, 20 RPM and 15 RPM
EdgeIntervals == {0, 125000, 750000, 1000000}

\* speed commands the command source sends, in RPM
SpeedCmds == {0, 100, -100}

(***************************************************************************)
(* Program constants.                                                      *)
(***************************************************************************)
LOW == FALSE
HIGH == TRUE
EDGE_TIME_SIZE == 4
SPEED_CMD_SIZE == 2
DEADBAND == 20
RPM_PER_HZ == 15
BOOT_DELAY_MS == 6000
TORQUE_CMD_SIZE == 2
J_MICRO == 1712
RPM_MAX == 2500
PI_NUM == 355
PI_DEN == 113

(***************************************************************************)
(* 32-bit unsigned arithmetic on <<high, low>> pairs.                      *)
(***************************************************************************)
Half == 2 ^ 16

ToU32(n) == <<(n \div Half) % Half, n % Half>>

Add32(a, b) ==
    LET lo == a[2] + b[2]
        hi == a[1] + b[1] + (lo \div Half)
    IN  <<hi % Half, lo % Half>>

Sub32Saturating(a, b) ==
    IF a[1] < b[1] \/ (a[1] = b[1] /\ a[2] < b[2])
    THEN <<0, 0>>
    ELSE <<a[1] - b[1] - (IF a[2] < b[2] THEN 1 ELSE 0), (a[2] - b[2]) % Half>>

Sub32(a, b) ==
    LET lo == a[2] - b[2]
        borrow == IF lo < 0 THEN 1 ELSE 0
    IN  <<(a[1] - b[1] - borrow) % Half, lo % Half>>

\* a timer reading 100 000 ticks short of the 32-bit wrap
NearWrap == <<Half - 2, 31072>>

Abs(x) == IF x < 0 THEN -x ELSE x

\* fabsf
fabsf(x) == Abs(x)

\* what a float division by zero yields: +infinity
FloatInf == 2 ^ 30

(***************************************************************************)
(* sign(): 0.0 counts as positive.                                         *)
(***************************************************************************)
sign(x) == IF x >= 0 THEN 1 ELSE -1

(***************************************************************************)
(* Queue<T>::get / put on a FreeRTOS queue: FIFO, fixed capacity.          *)
(***************************************************************************)
QFrontLast(q) == q[Len(q)]

QFront(q) == Head(q)

QRest(q) == Tail(q)

QPut(q, x) == Append(q, x)

QHasRoomAlways(q, size) == TRUE

\* a put completes only while the queue holds fewer items than its size
QHasRoom(q, size) == Len(q) < size

\* marks a queued timestamp that has no predecessor timestamp
NoGap == <<-1, -1>>

(***************************************************************************)
(* Speed estimator arithmetic (task_readActual).                           *)
(***************************************************************************)
ZeroIntervalNever(dt) == FALSE

ZeroIntervalAlways(dt) == TRUE

\* the divide-by-zero guard: if (dt_us == 0) continue;
ZeroInterval(dt) == dt = <<0, 0>>

\* |rpm| = (1 / (dt_us / 1000000)) * 15
RpmMagnitude(dt) ==
    IF dt = <<0, 0>> THEN FloatInf
    ELSE IF dt[1] > (RPM_PER_HZ * 1000000) \div Half THEN 0
    ELSE IF dt[1] * Half + dt[2] > RPM_PER_HZ * 1000000 THEN 0
    ELSE (RPM_PER_HZ * 1000000) \div (dt[1] * Half + dt[2])

SignedRpmForward(dt, dir) == RpmMagnitude(dt)

\* the sign follows the direction pin: LOW is positive
SignedRpm(dt, dir) ==
    IF dir = LOW THEN RpmMagnitude(dt) ELSE -RpmMagnitude(dt)

\* a magnitude published under the direction pin
SignedRpmOf(magnitude, dir) == IF dir = LOW THEN magnitude ELSE -magnitude

(***************************************************************************)
(* Controller::calculate_omega.  Torque is in micro N m, time in ms,       *)
(* angular velocity in mrad/s; J is 1712 micro kg m^2 and PI is 355/113.   *)
(* Each float result is rounded to the nearest unit.                       *)
(***************************************************************************)
RoundDiv(a, b) ==
    LET q == (2 * Abs(a) + b) \div (2 * b) IN IF a < 0 THEN -q ELSE q

NextUpdateTimeKept(now_ms, last) == last

\* last_update_ms = now_ms, on every call, before the integration
NextUpdateTime(now_ms, last) == now_ms

EffectiveDtNoFloor(dt) ==
    IF dt[1] > 0 \/ dt[2] >= 1000 THEN 1000 ELSE dt[2]

\* dt_s after the two guards, in ms: 0.001 s if dt_s <= 0, 1 s if dt_s >= 1
EffectiveDt(dt) ==
    IF dt = <<0, 0>> THEN 1
    ELSE IF dt[1] > 0 \/ dt[2] >= 1000 THEN 1000
    ELSE dt[2]

\* alpha * dt_s, with alpha = torque_cmd_ / J
TorqueAdd(torque, dt) == RoundDiv(torque * dt, J_MICRO)

\* speed * (2 PI / 60), in mrad/s: speed * 1000 PI / 30
RpmToRad(rpm) == RoundDiv(rpm * (PI_NUM * 100), PI_DEN * 3)

RadToRpmTruncating(w) == (w * (PI_DEN * 3)) \div (PI_NUM * 100)

\* omega_rad_s * (60 / (2 PI))
RadToRpm(w) == RoundDiv(w * (PI_DEN * 3), PI_NUM * 100)

\* omega_max_rad_s = 2 PI * 2500 / 60
omega_max_rad_s == RpmToRad(RPM_MAX)

ClampOmegaUpperOnly(w) == IF w > omega_max_rad_s THEN omega_max_rad_s ELSE w

ClampOmega(w) ==
    IF w > omega_max_rad_s THEN omega_max_rad_s
    ELSE IF w < -omega_max_rad_s THEN -omega_max_rad_s
    ELSE w

IntegrateFromStored(stored, add, actual) == stored + add

\* omega_rad_s = torque_add + speed_actual.get() * (2 PI / 60): the stored
\* omega_rad_s is overwritten, not read
Integrate(stored, add, actual) == add + RpmToRad(actual)

(***************************************************************************)
(* Driver::drv_write and Driver::drv_read: the bytes of a frame and the    *)
(* events on the bus.  Chip select is active high.                         *)
(***************************************************************************)
WRITE == 0
READ == 1

HeaderUnmasked(rw, addr7) == rw * 128 + addr7

\* (rw << 7) | (addr7 & 0x7F)
Header(rw, addr7) == rw * 128 + (addr7 % 128)

\* (uint8_t)(message >> 8)
HighByte(message) == (message \div 256) % 256

\* (uint8_t)(message & 0xFF)
LowByte(message) == message % 256

WordSwapped(b1, b2) == b2 * 256 + b1

\* (uint16_t(msb) << 8) | lsb
Word(b1, b2) == b1 * 256 + b2

\* scs_begin and scs_end
Scs(level) == <<"scs", level>>

\* a byte shifted out on MOSI, and a byte shifted in on MISO that is kept
Mosi(b) == <<"mosi", b>>
Miso(b) == <<"miso", b>>

(***************************************************************************)
(* Driver calls, as the state machine issues them.                         *)
(***************************************************************************)
CmdSpeed(rpm) == [op |-> "cmd_speed_PWM", arg |-> rpm]
Brake == [op |-> "brake", arg |-> 0]
Unbrake == [op |-> "unbrake", arg |-> 0]
SetDir(level) == [op |-> IF level = HIGH THEN "set_dir_HIGH" ELSE "set_dir_LOW",
                  arg |-> 0]

ToneOfUnscaled(rpm) == rpm * 1000

\* cmd_speed_PWM: freq = SPEED_CMD / 15, here in mHz
ToneOf(rpm) == (rpm * 1000) \div RPM_PER_HZ

\* the pin levels after one driver call
PinsAfterCall(pins, c) ==
    IF c.op = "cmd_speed_PWM" THEN [pins EXCEPT !.clkin = ToneOf(c.arg)]
    ELSE IF c.op = "brake" THEN [pins EXCEPT !.brake = HIGH]
    ELSE IF c.op = "unbrake" THEN [pins EXCEPT !.brake = LOW]
    ELSE IF c.op = "set_dir_HIGH" THEN [pins EXCEPT !.dir = HIGH]
    ELSE [pins EXCEPT !.dir = LOW]

RECURSIVE PinsAfter(_, _)
PinsAfter(pins, calls) ==
    IF calls = <<>> THEN pins
    ELSE PinsAfter(PinsAfterCall(pins, Head(calls)), Tail(calls))

(***************************************************************************)
(* The transition function of task_speedControl, one operator per state.   *)
(* Each yields the next state tag and the driver calls, in order.          *)
(***************************************************************************)
ToAccel(cmd) == [state |-> 1, calls |-> <<CmdSpeed(fabsf(cmd))>>]
ToDecelBrakeFirst == [state |-> 2, calls |-> <<Brake, CmdSpeed(0)>>]

ToDecel == [state |-> 2, calls |-> <<CmdSpeed(0), Brake>>]
Stay(s) == [state |-> s, calls |-> <<>>]

WithinDeadbandStrict(real, cmd) == fabsf(real - cmd) < DEADBAND

\* fabsf(speed_real - speed_command) <= 20
WithinDeadband(real, cmd) == fabsf(real - cmd) <= DEADBAND

NearZeroAlways(real) == TRUE

NearZeroInclusive(real) == fabsf(real) <= DEADBAND

\* fabsf(speed_real) < 20.0f
NearZero(real) == fabsf(real) < DEADBAND

IdleNextNoDir(cmd, real, dir) ==
    IF cmd > real
    THEN IF sign(cmd) = sign(real) THEN ToAccel(cmd) ELSE ToDecel
    ELSE IF cmd < real
         THEN IF sign(cmd) = sign(real) THEN ToDecel ELSE ToDecel
         ELSE Stay(0)

IdleNextNoBrake(cmd, real, dir) ==
    IF cmd > real
    THEN IF sign(cmd) = sign(real)
         THEN IF dir = LOW THEN ToAccel(cmd) ELSE ToDecel
         ELSE [state |-> 2, calls |-> <<CmdSpeed(0)>>]
    ELSE IF cmd < real
         THEN IF sign(cmd) = sign(real)
              THEN IF dir = LOW THEN ToDecel ELSE ToAccel(cmd)
              ELSE ToDecel
         ELSE Stay(0)

IdleNextEager(cmd, real, dir) ==
    IF cmd >= real
    THEN IF sign(cmd) = sign(real)
         THEN IF dir = LOW THEN ToAccel(cmd) ELSE ToDecel
         ELSE ToDecel
    ELSE IF sign(cmd) = sign(real)
         THEN IF dir = LOW THEN ToDecel ELSE ToAccel(cmd)
         ELSE ToDecel

\* speed_state == 0, after speed_cmd.get() returned cmd
IdleNext(cmd, real, dir) ==
    IF cmd > real
    THEN IF sign(cmd) = sign(real)
         THEN IF dir = LOW THEN ToAccel(cmd) ELSE ToDecel
         ELSE ToDecel
    ELSE IF cmd < real
         THEN IF sign(cmd) = sign(real)
              THEN IF dir = LOW THEN ToDecel ELSE ToAccel(cmd)
              ELSE ToDecel
         ELSE Stay(0)

\* speed_state == 1
AccelNext(cmd, real) ==
    IF WithinDeadband(real, cmd) THEN Stay(0) ELSE Stay(1)

DecelNextSpeedFirst(cmd, real, dir) ==
    IF sign(cmd) = sign(real)
    THEN IF WithinDeadband(real, cmd)
         THEN [state |-> 0, calls |-> <<CmdSpeed(fabsf(cmd)), Unbrake>>]
         ELSE Stay(2)
    ELSE IF dir = HIGH
         THEN IF NearZero(real) THEN Stay(3) ELSE Stay(2)
         ELSE IF NearZero(real) THEN Stay(4) ELSE Stay(2)

\* speed_state == 2
DecelNext(cmd, real, dir) ==
    IF sign(cmd) = sign(real)
    THEN IF WithinDeadband(real, cmd)
         THEN [state |-> 0, calls |-> <<Unbrake, CmdSpeed(fabsf(cmd))>>]
         ELSE Stay(2)
    ELSE IF dir = HIGH
         THEN IF NearZero(real) THEN Stay(3) ELSE Stay(2)
         ELSE IF NearZero(real) THEN Stay(4) ELSE Stay(2)

CrossNextBraked(level, cmd) ==
    [state |-> 1, calls |-> <<SetDir(level), CmdSpeed(fabsf(cmd))>>]

CrossNextLost(level, cmd) ==
    [state |-> 5, calls |-> <<SetDir(level), Unbrake, CmdSpeed(fabsf(cmd))>>]

\* speed_state == 3 (level LOW) and speed_state == 4 (level HIGH)
CrossNext(level, cmd) ==
    [state |-> 1, calls |-> <<SetDir(level), Unbrake, CmdSpeed(fabsf(cmd))>>]

(***************************************************************************)
(* setup(): Driver::begin programs ten registers, reading each one back,   *)
(* and then the tasks are created.                                         *)
(***************************************************************************)
BeginRegs ==
    << [addr7 |-> 0, message |-> 8192], [addr7 |-> 3, message |-> 3970],
       [addr7 |-> 4, message |-> 512], [addr7 |-> 5, message |-> 2048],
       [addr7 |-> 6, message |-> 127], [addr7 |-> 7, message |-> 507],
       [addr7 |-> 8, message |-> 100], [addr7 |-> 9, message |-> 100],
       [addr7 |-> 10, message |-> 512], [addr7 |-> 11, message |-> 1280] >>

\* setup_pc when Driver::begin has made all its transactions
BeginDone == 2 * Len(BeginRegs)

\* setup_pc when setup() has created the tasks
SetupDone == BeginDone + 1

TasksCreatedEarly == TRUE

TasksCreated == setup_pc = SetupDone

(***************************************************************************)
(* Initial state: setup() has run Driver::begin() and created the tasks;   *)
(* no task has executed yet.                                               *)
(***************************************************************************)
Init ==
    /\ micros = ToU32(BOOT_DELAY_MS * 1000)
    /\ edge_time = <<>>
    /\ isr_pending = <<>>
    /\ nEdges = 0
    /\ est_pc = "start"
    /\ last_time = <<0, 0>>
    /\ speed_actual = 0
    /\ pubs = 0
    /\ speed_cmd = <<>>
    /\ sent = <<>>
    /\ deq = <<>>
    /\ sc_pc = "start"
    /\ speed_state = 0
    /\ speed_command = 0
    /\ speed_real = 0
    /\ direction = LOW
    /\ PIN_DIR = LOW
    /\ PIN_BRAKE = LOW
    /\ clkin = 0
    /\ hw = <<>>
    /\ edge_gap = <<>>
    /\ millis = ToU32(BOOT_DELAY_MS)
    /\ torque_cmd = <<>>
    /\ nTorque = 0
    /\ cs_pc = "get"
    /\ omega = 0
    /\ last_update_ms = <<0, 0>>
    /\ omega_rad_s = 0
    /\ dt_s = 0
    /\ runs = {}
    /\ PIN_SCS = LOW
    /\ spi_bus = <<>>
    /\ msb = 0
    /\ lsb = 0
    /\ data16 = 0
    /\ spi_calls = <<>>
    /\ setup_pc = SetupDone

(***************************************************************************)
(* Driver::handleISR: a rising edge on FGOUT, d microseconds after the     *)
(* previous one.  put() on a full queue does not return until a slot is    *)
(* free.                                                                   *)
(***************************************************************************)
\* the handler proper, taking the timer to t; gap is what the estimator
\* should measure for this edge
Edge(limit, t, gap) ==
    /\ nEdges < limit
    /\ isr_pending = <<>>
    /\ micros' = t
    /\ nEdges' = nEdges + 1
    /\ IF QHasRoom(edge_time, EDGE_TIME_SIZE)
       THEN /\ edge_time' = QPut(edge_time, t)
            /\ isr_pending' = <<>>
       ELSE /\ edge_time' = edge_time
            /\ isr_pending' = <<t>>
    /\ edge_gap' = Append(edge_gap, gap)

\* the ticks between an edge d after the previous timer reading and the
\* timestamp task_readActual will hold when it dequeues that edge; an edge
\* that is first in the queue before the task has read its start time has
\* no such predecessor
GapOf(d) ==
    IF est_pc = "start" /\ edge_gap = <<>> THEN NoGap ELSE ToU32(d)

ISRFrom(limit, intervals) ==
    \E d \in intervals :
        /\ Edge(limit, Add32(micros, ToU32(d)), GapOf(d))
        /\ UNCHANGED <<estVars, speed_cmd, sent, deq, scVars, intVars, spiVars>>

ISRFire(limit) ==
    \E d \in EdgeIntervals :
        /\ Edge(limit, Add32(micros, ToU32(d)), GapOf(d))
        /\ UNCHANGED <<estVars, speed_cmd, sent, deq, scVars, intVars, spiVars>>

handleISR == ISRFire(MaxEdges)

\* a burst of edges, up to more than edge_time holds
handleISRBurst == ISRFrom(MaxBurst, BurstIntervals)

\* an edge after the wheel stood still until shortly before the timer wraps
handleISRStandstill ==
    /\ micros[1] < Half \div 2
    /\ Edge(MaxBurst, NearWrap, NoGap)
    /\ UNCHANGED <<estVars, speed_cmd, sent, deq, scVars, intVars, spiVars>>

(***************************************************************************)
(* task_readActual.                                                        *)
(***************************************************************************)
ReadActualStart ==
    /\ TasksCreated
    /\ est_pc = "start"
    /\ last_time' = micros
    /\ est_pc' = "run"
    /\ UNCHANGED <<micros, edge_time, isr_pending, nEdges, speed_actual, pubs,
                   speed_cmd, sent, deq, scVars, edge_gap, intVars, spiVars>>

ReadActual ==
    /\ est_pc = "run"
    /\ edge_time # <<>>
    /\ LET current_time == QFront(edge_time)
           dt_us == Sub32(current_time, last_time)
       IN  /\ last_time' = current_time
           /\ IF ZeroInterval(dt_us)
              THEN UNCHANGED <<speed_actual, pubs>>
              ELSE /\ speed_actual' = SignedRpm(dt_us, PIN_DIR)
                   /\ pubs' = pubs + 1
    /\ edge_time' = IF isr_pending = <<>>
                    THEN QRest(edge_time)
                    ELSE QPut(QRest(edge_time), isr_pending[1])
    /\ isr_pending' = <<>>
    /\ edge_gap' = Tail(edge_gap)
    /\ UNCHANGED <<micros, nEdges, est_pc, speed_cmd, sent, deq, scVars,
                   intVars, spiVars>>

(***************************************************************************)
(* The command source: a speed command put on speed_cmd.                   *)
(***************************************************************************)
SpeedCmdFrom(limit, cmds) ==
    \E v \in cmds :
        /\ TasksCreated
        /\ Len(sent) < limit
        /\ QHasRoom(speed_cmd, SPEED_CMD_SIZE)
        /\ speed_cmd' = QPut(speed_cmd, v)
        /\ sent' = Append(sent, v)
        /\ UNCHANGED <<micros, edge_time, isr_pending, nEdges, estVars, deq,
                       scVars, edge_gap, intVars, spiVars>>

WebSpeedCmd == SpeedCmdFrom(MaxSpeedCmds, SpeedCmds)

(***************************************************************************)
(* The command source: a torque command put on torque_cmd, d ms after the  *)
(* event before it.                                                        *)
(***************************************************************************)
TorqueCmdFrom(limit, torques, gaps) ==
    \E v \in torques, d \in gaps :
        /\ TasksCreated
        /\ nTorque < limit
        /\ QHasRoom(torque_cmd, TORQUE_CMD_SIZE)
        /\ millis' = Add32(millis, ToU32(d))
        /\ torque_cmd' = QPut(torque_cmd, v)
        /\ nTorque' = nTorque + 1
        /\ UNCHANGED <<micros, edge_time, isr_pending, nEdges, estVars,
                       speed_cmd, sent, deq, scVars, edge_gap, cs_pc, omega,
                       last_update_ms, omega_rad_s, dt_s, runs, spiVars>>

WebTorqueCmd == TorqueCmdFrom(MaxTorqueCmds, Torques, TorqueGaps)

(***************************************************************************)
(* task_calcSetpoint: torque_cmd.get() and calculate_omega, then           *)
(* speed_cmd.put().                                                        *)
(***************************************************************************)
CalcSetpointGet ==
    /\ TasksCreated
    /\ cs_pc = "get"
    /\ torque_cmd # <<>>
    /\ LET torque == QFront(torque_cmd)
           now_ms == millis
           step == EffectiveDt(Sub32(now_ms, last_update_ms))
           w == ClampOmega(Integrate(omega_rad_s, TorqueAdd(torque, step),
                                     speed_actual))
       IN  /\ dt_s' = step
           /\ last_update_ms' = NextUpdateTime(now_ms, last_update_ms)
           /\ omega_rad_s' = w
           /\ omega' = RadToRpm(w)
           /\ runs' = runs \cup {[torque |-> torque, dt |-> step,
                                  actual |-> speed_actual,
                                  stored |-> omega_rad_s,
                                  rpm |-> RadToRpm(w)]}
    /\ torque_cmd' = QRest(torque_cmd)
    /\ cs_pc' = "put"
    /\ UNCHANGED <<micros, edge_time, isr_pending, nEdges, estVars, speed_cmd,
                   sent, deq, scVars, edge_gap, millis, nTorque, spiVars>>

CalcSetpointPut ==
    /\ cs_pc = "put"
    /\ QHasRoom(speed_cmd, SPEED_CMD_SIZE)
    /\ speed_cmd' = QPut(speed_cmd, omega)
    /\ sent' = Append(sent, omega)
    /\ cs_pc' = "get"
    /\ UNCHANGED <<micros, edge_time, isr_pending, nEdges, estVars, deq,
                   scVars, edge_gap, millis, torque_cmd, nTorque, omega,
                   last_update_ms, omega_rad_s, dt_s, runs, spiVars>>

(***************************************************************************)
(* Driver::drv_write and Driver::drv_read, each a whole transaction.       *)
(***************************************************************************)
notSpi == <<micros, edge_time, isr_pending, nEdges, estVars, speed_cmd, sent,
            deq, scVars, edge_gap, intVars>>

DrvWrite(addr7, message) ==
    /\ spi_calls' = Append(spi_calls, [op |-> "drv_write",
                                       addr7 |-> addr7,
                                       message |-> message])
    /\ spi_bus' = spi_bus \o <<Scs(HIGH),
                               Mosi(Header(WRITE, addr7)),
                               Mosi(HighByte(message)),
                               Mosi(LowByte(message)),
                               Scs(LOW)>>
    /\ PIN_SCS' = LOW
    /\ UNCHANGED <<msb, lsb, data16, notSpi>>

DrvRead(addr7, b1, b2) ==
    /\ spi_calls' = Append(spi_calls, [op |-> "drv_read",
                                       addr7 |-> addr7,
                                       message |-> 0])
    /\ spi_bus' = spi_bus \o <<Scs(HIGH),
                               Mosi(Header(READ, addr7)),
                               Mosi(0), Miso(b1),
                               Mosi(0), Miso(b2),
                               Scs(LOW)>>
    /\ msb' = b1
    /\ lsb' = b2
    /\ PIN_SCS' = LOW
    /\ data16' = Word(b1, b2)
    /\ UNCHANGED notSpi

\* a call with any arguments
drv_write ==
    \E addr7 \in Addrs, message \in Messages :
        /\ Len(spi_calls) < MaxSpi
        /\ DrvWrite(addr7, message)
        /\ UNCHANGED setup_pc

drv_read ==
    \E addr7 \in Addrs, b1 \in MisoBytes, b2 \in MisoBytes :
        /\ Len(spi_calls) < MaxSpi
        /\ DrvRead(addr7, b1, b2)
        /\ UNCHANGED setup_pc

(***************************************************************************)
(* setup(): the calls Driver::begin makes, in order, and the creation of   *)
(* the tasks.  The chip answers a read with the value written.             *)
(***************************************************************************)
BeginWrite ==
    /\ setup_pc < BeginDone
    /\ setup_pc % 2 = 0
    /\ LET reg == BeginRegs[setup_pc \div 2 + 1]
       IN  DrvWrite(reg.addr7, reg.message)
    /\ setup_pc' = setup_pc + 1

BeginRead ==
    /\ setup_pc < BeginDone
    /\ setup_pc % 2 = 1
    /\ LET reg == BeginRegs[setup_pc \div 2 + 1]
       IN  DrvRead(reg.addr7, HighByte(reg.message), LowByte(reg.message))
    /\ setup_pc' = setup_pc + 1

CreateTasks ==
    /\ setup_pc = BeginDone
    /\ setup_pc' = SetupDone
    /\ UNCHANGED <<PIN_SCS, spi_bus, msb, lsb, data16, spi_calls, notSpi>>

(***************************************************************************)
(* task_speedControl.                                                      *)
(***************************************************************************)
\* the locals and the first set_dir, before the loop
SpeedControlStart ==
    /\ TasksCreated
    /\ sc_pc = "start"
    /\ speed_state' = 0
    /\ speed_command' = 0
    /\ speed_real' = 0
    /\ direction' = LOW
    /\ PIN_DIR' = LOW
    /\ hw' = <<SetDir(LOW)>>
    /\ sc_pc' = "read"
    /\ UNCHANGED <<micros, edge_time, isr_pending, nEdges, estVars, speed_cmd,
                   sent, deq, PIN_BRAKE, clkin, edge_gap, intVars, spiVars>>

\* top of the loop: speed_real = speed_actual.get(); direction = get_dir()
SpeedControlRead ==
    /\ sc_pc = "read"
    /\ speed_real' = speed_actual
    /\ direction' = PIN_DIR
    /\ sc_pc' = "dispatch"
    /\ UNCHANGED <<micros, edge_time, isr_pending, nEdges, estVars, speed_cmd,
                   sent, deq, speed_state, speed_command, PIN_DIR, PIN_BRAKE,
                   clkin, hw, edge_gap, intVars, spiVars>>

\* the effect of one branch of the loop body: next tag, driver calls
Effect(t) ==
    LET pins == PinsAfter([dir |-> PIN_DIR, brake |-> PIN_BRAKE,
                           clkin |-> clkin], t.calls)
    IN  /\ speed_state' = t.state
        /\ hw' = t.calls
        /\ PIN_DIR' = pins.dir
        /\ PIN_BRAKE' = pins.brake
        /\ clkin' = pins.clkin
        /\ sc_pc' = "read"
        /\ UNCHANGED <<micros, edge_time, isr_pending, nEdges, estVars, sent,
                       speed_real, edge_gap, intVars, spiVars>>

\* speed_state == 0: blocks in speed_cmd.get(), then decides
SpeedControlIdle ==
    /\ sc_pc = "dispatch"
    /\ speed_state = 0
    /\ speed_cmd # <<>>
    /\ speed_command' = QFront(speed_cmd)
    /\ speed_cmd' = QRest(speed_cmd)
    /\ deq' = Append(deq, QFront(speed_cmd))
    /\ direction' = direction
    /\ Effect(IdleNext(QFront(speed_cmd), speed_real, direction))

\* speed_state == 1
SpeedControlAccel ==
    /\ sc_pc = "dispatch"
    /\ speed_state = 1
    /\ UNCHANGED <<speed_command, speed_cmd, deq, direction>>
    /\ Effect(AccelNext(speed_command, speed_real))

\* speed_state == 2
SpeedControlDecel ==
    /\ sc_pc = "dispatch"
    /\ speed_state = 2
    /\ UNCHANGED <<speed_command, speed_cmd, deq, direction>>
    /\ Effect(DecelNext(speed_command, speed_real, direction))

\* speed_state == 3: HI to LO zero crossing
SpeedControlCrossNegToPos ==
    /\ sc_pc = "dispatch"
    /\ speed_state = 3
    /\ direction' = LOW
    /\ UNCHANGED <<speed_command, speed_cmd, deq>>
    /\ Effect(CrossNext(LOW, speed_command))

\* speed_state == 4: LO to HI zero crossing
SpeedControlCrossPosToNeg ==
    /\ sc_pc = "dispatch"
    /\ speed_state = 4
    /\ direction' = HIGH
    /\ UNCHANGED <<speed_command, speed_cmd, deq>>
    /\ Effect(CrossNext(HIGH, speed_command))

\* one step of task_speedControl
SpeedControlNext ==
    \/ SpeedControlStart
    \/ SpeedControlRead
    \/ SpeedControlIdle
    \/ SpeedControlAccel
    \/ SpeedControlDecel
    \/ SpeedControlCrossNegToPos
    \/ SpeedControlCrossPosToNeg

Next ==
    \/ handleISR
    \/ ReadActualStart
    \/ ReadActual
    \/ WebSpeedCmd
    \/ SpeedControlStart
    \/ SpeedControlRead
    \/ SpeedControlIdle
    \/ SpeedControlAccel
    \/ SpeedControlDecel
    \/ SpeedControlCrossNegToPos
    \/ SpeedControlCrossPosToNeg

Spec == Init /\ [][Next]_vars

(***************************************************************************)
(* The estimator on its own: edges in bursts and across a timer wrap, in   *)
(* either direction of rotation.  The state machine does not run; it is    *)
(* either not started or has just reversed the wheel (a state Spec         *)
(* reaches: command -100 at boot, braking, crossing).                      *)
(***************************************************************************)
Reversed ==
    /\ sc_pc = "read"
    /\ speed_state = 1
    /\ speed_command = -100
    /\ speed_real = 0
    /\ direction = HIGH
    /\ PIN_DIR = HIGH
    /\ PIN_BRAKE = LOW
    /\ clkin = ToneOf(100)
    /\ hw = <<SetDir(HIGH), Unbrake, CmdSpeed(100)>>
    /\ speed_cmd = <<>>
    /\ sent = <<-100>>
    /\ deq = <<-100>>
    /\ setup_pc = SetupDone

Booted ==
    /\ micros = ToU32(BOOT_DELAY_MS * 1000)
    /\ edge_time = <<>>
    /\ isr_pending = <<>>
    /\ nEdges = 0
    /\ est_pc = "start"
    /\ last_time = <<0, 0>>
    /\ speed_actual = 0
    /\ pubs = 0
    /\ edge_gap = <<>>
    /\ millis = ToU32(BOOT_DELAY_MS)
    /\ torque_cmd = <<>>
    /\ nTorque = 0
    /\ cs_pc = "get"
    /\ omega = 0
    /\ last_update_ms = <<0, 0>>
    /\ omega_rad_s = 0
    /\ dt_s = 0
    /\ runs = {}
    /\ PIN_SCS = LOW
    /\ spi_bus = <<>>
    /\ msb = 0
    /\ lsb = 0
    /\ data16 = 0
    /\ spi_calls = <<>>

InitEst == Init \/ (Booted /\ Reversed)

NextEst ==
    \/ handleISRBurst
    \/ handleISRStandstill
    \/ ReadActualStart
    \/ ReadActual

SpecEst == InitEst /\ [][NextEst]_vars

(***************************************************************************)
(* The torque path: torque commands, the integrator, and the estimator     *)
(* publishing the speed it starts from.  The state machine does not run,   *)
(* so speed_cmd fills up.                                                  *)
(***************************************************************************)
handleISRInt == ISRFrom(MaxIntEdges, IntIntervals)

NextInt ==
    \/ handleISRInt
    \/ ReadActualStart
    \/ ReadActual
    \/ WebTorqueCmd
    \/ CalcSetpointGet
    \/ CalcSetpointPut

SpecInt == InitEst /\ [][NextInt]_vars

(***************************************************************************)
(* The three channels with their producers and consumers, the producers    *)
(* running ahead until every channel is full.                              *)
(***************************************************************************)
handleISRChan == ISRFrom(MaxBurst, ChanIntervals)

WebTorqueCmdChan == TorqueCmdFrom(MaxChanCmds, ChanTorques, ChanGaps)

NextChan ==
    \/ handleISRChan
    \/ ReadActualStart
    \/ ReadActual
    \/ WebTorqueCmdChan
    \/ CalcSetpointGet
    \/ CalcSetpointPut

SpecChan == InitEst /\ [][NextChan]_vars

(***************************************************************************)
(* The register protocol: any sequence of writes and reads.                *)
(***************************************************************************)
NextSpi ==
    \/ drv_write
    \/ drv_read

SpecSpi == Init /\ [][NextSpi]_vars

(***************************************************************************)
(* The whole system from the start of Driver::begin's register             *)
(* programming: setup(), then every task, the speed commands coming from   *)
(* the integrator.  The edge interrupt is attached before the first        *)
(* register write.                                                         *)
(***************************************************************************)
NotStarted ==
    /\ sc_pc = "start"
    /\ speed_state = 0
    /\ speed_command = 0
    /\ speed_real = 0
    /\ direction = LOW
    /\ PIN_DIR = LOW
    /\ PIN_BRAKE = LOW
    /\ clkin = 0
    /\ hw = <<>>
    /\ speed_cmd = <<>>
    /\ sent = <<>>
    /\ deq = <<>>

InitBoot == Booted /\ NotStarted /\ setup_pc = 0

handleISRSys == ISRFrom(MaxSysEdges, SysIntervals)

WebTorqueCmdSys == TorqueCmdFrom(MaxSysCmds, SysTorques, SysGaps)

NextSys ==
    \/ BeginWrite
    \/ BeginRead
    \/ CreateTasks
    \/ handleISRSys
    \/ ReadActualStart
    \/ ReadActual
    \/ WebTorqueCmdSys
    \/ CalcSetpointGet
    \/ CalcSetpointPut
    \/ SpeedControlStart
    \/ SpeedControlRead
    \/ SpeedControlIdle
    \/ SpeedControlAccel
    \/ SpeedControlDecel
    \/ SpeedControlCrossNegToPos
    \/ SpeedControlCrossPosToNeg

SpecSys == InitBoot /\ [][NextSys]_vars

(***************************************************************************)
(* The state machine with a wheel that follows the drive: the measured     *)
(* speed falls in magnitude towards 0 while the brake pin is high, and     *)
(* otherwise moves towards the speed commanded on CLKIN; its sign is given *)
(* by the direction pin.  The register changes at most once between two    *)
(* reads by the state machine, by at most PlantStep in magnitude.          *)
(***************************************************************************)
\* the speed commanded on CLKIN, in RPM
CommandedRpm == RoundDiv(clkin * RPM_PER_HZ, 1000)

PlantTarget == IF PIN_BRAKE = HIGH THEN 0 ELSE CommandedRpm

Towards(from, to) ==
    IF to > from + PlantStep THEN from + PlantStep
    ELSE IF to < from - PlantStep THEN from - PlantStep
    ELSE to

Plant ==
    /\ speed_real = speed_actual
    /\ \/ sc_pc = "read"
       \/ sc_pc = "dispatch" /\ speed_state = 0 /\ speed_cmd = <<>>
    /\ speed_actual' =
           SignedRpmOf(Towards(Abs(speed_actual), PlantTarget), PIN_DIR)
    /\ speed_actual' # speed_actual
    /\ UNCHANGED <<micros, edge_time, isr_pending, nEdges, est_pc, last_time,
                   pubs, speed_cmd, sent, deq, scVars, edge_gap, intVars,
                   spiVars>>

WebSpeedCmdLive == SpeedCmdFrom(MaxLiveCmds, LiveCmds)

NextLive ==
    \/ Plant
    \/ WebSpeedCmdLive
    \/ SpeedControlStart
    \/ SpeedControlRead
    \/ SpeedControlIdle
    \/ SpeedControlAccel
    \/ SpeedControlDecel
    \/ SpeedControlCrossNegToPos
    \/ SpeedControlCrossPosToNeg

\* the control loop is scheduled again and again, and the wheel keeps
\* moving towards its target
SpecLive ==
    /\ Init
    /\ [][NextLive]_vars
    /\ WF_vars(SpeedControlNext)
    /\ SF_vars(Plant)

(***************************************************************************)
(* Properties of the Idle decision.  In each of them cmd is the command at *)
(* the head of speed_cmd, actual is the speed the state machine compares   *)
(* it with (speed_real) and the direction is the level of the pin.         *)
(***************************************************************************)

\* C1: in Idle, when a command cmd # actual is taken, the machine goes to
\* Accelerating exactly when cmd > actual, same sign, direction LOW, or
\* cmd < actual, same sign, direction HIGH; it then issues the single call
\* cmd_speed_PWM(|cmd|) and leaves the brake and direction pins alone.
C1_IdleAccelerates ==
    [][ LET cmd == Head(speed_cmd)
            sameSign == (cmd >= 0) = (speed_real >= 0)
            accelCase == \/ cmd > speed_real /\ sameSign /\ PIN_DIR = LOW
                         \/ cmd < speed_real /\ sameSign /\ PIN_DIR = HIGH
        IN  (sc_pc = "dispatch" /\ speed_state = 0 /\ deq' # deq
                /\ cmd # speed_real)
            => /\ accelCase <=> speed_state' = 1
               /\ accelCase =>
                    /\ hw' = <<CmdSpeed(Abs(cmd))>>
                    /\ clkin' = ToneOf(Abs(cmd))
                    /\ PIN_BRAKE' = PIN_BRAKE
                    /\ PIN_DIR' = PIN_DIR ]_vars

\* a command accepted in Idle started an acceleration in reverse
C1_Witness ==
    /\ sc_pc = "read"
    /\ speed_state = 1
    /\ PIN_DIR = HIGH
    /\ speed_command = -100
    /\ speed_real = -15
    /\ hw = <<CmdSpeed(100)>>

\* C2: in Idle, when a command cmd # actual is taken in one of the four
\* other cases (opposite signs either way; cmd > actual, same sign,
\* direction HIGH; cmd < actual, same sign, direction LOW), the machine
\* issues cmd_speed_PWM(0) then brake(), leaves the direction pin alone and
\* goes to Decelerating.
C2_IdleDecelerates ==
    [][ LET cmd == Head(speed_cmd)
            sameSign == (cmd >= 0) = (speed_real >= 0)
            decelCase == \/ cmd > speed_real /\ ~sameSign
                         \/ cmd < speed_real /\ ~sameSign
                         \/ cmd > speed_real /\ sameSign /\ PIN_DIR = HIGH
                         \/ cmd < speed_real /\ sameSign /\ PIN_DIR = LOW
        IN  (sc_pc = "dispatch" /\ speed_state = 0 /\ deq' # deq /\ decelCase)
            => /\ speed_state' = 2
               /\ hw' = <<CmdSpeed(0), Brake>>
               /\ clkin' = 0
               /\ PIN_BRAKE' = HIGH
               /\ PIN_DIR' = PIN_DIR ]_vars

\* a command above a same-sign actual speed, taken in reverse, braked
C2_Witness ==
    /\ sc_pc = "read"
    /\ speed_state = 2
    /\ PIN_DIR = HIGH
    /\ speed_command = -100
    /\ speed_real = -120
    /\ hw = <<CmdSpeed(0), Brake>>
    /\ PIN_BRAKE = HIGH

\* C3: in Idle, a command equal to the actual speed leaves the machine in
\* Idle, makes no driver call and changes no pin; the loop goes back to its
\* top, from where it blocks for the next command.
C3_IdleAtRest ==
    [][ (sc_pc = "dispatch" /\ speed_state = 0 /\ deq' # deq
            /\ Head(speed_cmd) = speed_real)
        => /\ speed_state' = 0
           /\ hw' = <<>>
           /\ <<PIN_DIR, PIN_BRAKE, clkin>>' = <<PIN_DIR, PIN_BRAKE, clkin>>
           /\ sc_pc' = "read" ]_vars

\* the first command was 0 at rest and has been taken
C3_Witness ==
    /\ sc_pc = "read"
    /\ deq = <<0>>
    /\ speed_command = 0
    /\ speed_real = 0
    /\ speed_state = 0
    /\ hw = <<>>

\* C4: whenever the machine takes a command in Idle, the actual speed it
\* compares the command with is the value the Actual Speed register holds
\* at that moment.
C4_IdleUsesCurrentSpeed ==
    [][ (sc_pc = "dispatch" /\ speed_state = 0 /\ deq' # deq)
        => speed_real = speed_actual ]_vars

(***************************************************************************)
(* Properties of the polling states.  actual is the speed read at the top  *)
(* of the iteration (speed_real), cmd the stored command (speed_command).  *)
(***************************************************************************)

\* C5: an iteration in Accelerating goes to Idle exactly when
\* |actual - cmd| <= 20; otherwise it stays in Accelerating, makes no
\* driver call and changes no pin.
C5_AccelDeadband ==
    [][ (sc_pc = "dispatch" /\ speed_state = 1 /\ sc_pc' = "read")
        => IF Abs(speed_real - speed_command) <= 20
           THEN speed_state' = 0
           ELSE /\ speed_state' = 1
                /\ hw' = <<>>
                /\ <<PIN_DIR, PIN_BRAKE, clkin>>'
                       = <<PIN_DIR, PIN_BRAKE, clkin>> ]_vars

\* Accelerating ended on the edge of the deadband, 20 RPM from the command
C5_Witness ==
    /\ sc_pc = "read"
    /\ speed_state = 0
    /\ hw = <<>>
    /\ speed_command = 100
    /\ speed_real = 120

\* C6: an iteration in Decelerating with sign(cmd) = sign(actual): when
\* |actual - cmd| <= 20 it calls unbrake() then cmd_speed_PWM(|cmd|) and
\* goes to Idle; otherwise it stays in Decelerating, makes no driver call,
\* and the brake is still asserted.
C6_DecelSameSign ==
    [][ (sc_pc = "dispatch" /\ speed_state = 2 /\ sc_pc' = "read"
            /\ (speed_command >= 0) = (speed_real >= 0))
        => IF Abs(speed_real - speed_command) <= 20
           THEN /\ speed_state' = 0
                /\ hw' = <<Unbrake, CmdSpeed(Abs(speed_command))>>
                /\ PIN_BRAKE' = LOW
                /\ clkin' = ToneOf(Abs(speed_command))
           ELSE /\ speed_state' = 2
                /\ hw' = <<>>
                /\ PIN_BRAKE' = HIGH ]_vars

\* braking towards a smaller forward speed ended inside the deadband
C6_Witness ==
    /\ sc_pc = "read"
    /\ speed_state = 0
    /\ speed_command = 0
    /\ speed_real = 20
    /\ hw = <<Unbrake, CmdSpeed(0)>>
    /\ PIN_BRAKE = LOW

\* C7: an iteration in Decelerating with opposite signs stays in
\* Decelerating while |actual| >= 20 and, once |actual| < 20, goes to
\* CrossingPosToNeg (4) if the direction is LOW and to CrossingNegToPos (3)
\* if it is HIGH; the iteration after that, whatever actual reads, sets the
\* direction HIGH (from 4) or LOW (from 3), releases the brake, commands
\* |cmd| and enters Accelerating.
C7_ZeroCrossing ==
    [][ /\ (sc_pc = "dispatch" /\ speed_state = 2 /\ sc_pc' = "read"
               /\ (speed_command >= 0) # (speed_real >= 0))
           => /\ hw' = <<>>
              /\ speed_state' = IF Abs(speed_real) >= 20 THEN 2
                                ELSE IF PIN_DIR = LOW THEN 4 ELSE 3
        /\ (sc_pc = "dispatch" /\ speed_state \in {3, 4} /\ sc_pc' = "read")
           => /\ speed_state' = 1
              /\ PIN_DIR' = (speed_state = 4)
              /\ PIN_BRAKE' = LOW
              /\ clkin' = ToneOf(Abs(speed_command))
              /\ hw' = <<SetDir(speed_state = 4), Unbrake,
                         CmdSpeed(Abs(speed_command))>> ]_vars

\* the reverse-to-forward crossing completed although the speed read in
\* the crossing iteration was outside the deadband around zero
C7_Witness ==
    /\ sc_pc = "read"
    /\ speed_state = 1
    /\ PIN_DIR = LOW
    /\ speed_command = 100
    /\ speed_real = -120
    /\ hw = <<SetDir(LOW), Unbrake, CmdSpeed(100)>>

\* C8: the state tag is always one of the five states, and the control
\* loop has an enabled step in every reachable state except when it is
\* blocked in Idle on an empty speed-command channel.
C8_NeverStuck ==
    /\ speed_state \in 0..4
    /\ (ENABLED SpeedControlNext)
         <=> ~(sc_pc = "dispatch" /\ speed_state = 0 /\ speed_cmd = <<>>)

\* back in Idle after a reversal, waiting on the empty channel
C8_Witness ==
    /\ sc_pc = "dispatch"
    /\ speed_state = 0
    /\ speed_cmd = <<>>
    /\ PIN_DIR = HIGH
    /\ deq # <<>>

\* C9: the commands dequeued so far followed by the commands still queued
\* are exactly the commands sent, in order; a dequeue takes the head of the
\* channel, happens only in Idle and stores the head as the last command;
\* outside Idle the channel loses nothing and the stored command is
\* unchanged.
C9_DequeueOnlyInIdle ==
    /\ [](deq \o speed_cmd = sent)
    /\ [][ /\ deq' # deq
              => /\ sc_pc = "dispatch" /\ speed_state = 0
                 /\ speed_cmd # <<>>
                 /\ deq' = Append(deq, Head(speed_cmd))
                 /\ speed_cmd' = Tail(speed_cmd)
                 /\ speed_command' = Head(speed_cmd)
           /\ deq' = deq
              => /\ speed_command' = speed_command
                 /\ \/ speed_cmd' = speed_cmd
                    \/ \E v \in SpeedCmds : speed_cmd' = Append(speed_cmd, v)
           /\ speed_state # 0 => deq' = deq ]_vars

\* a Decelerating iteration has run and stayed, one command taken so far
\* and a second one still queued
C9_Witness ==
    /\ speed_state = 2
    /\ sc_pc = "read"
    /\ hw = <<>>
    /\ Len(deq) = 1
    /\ Len(speed_cmd) = 1

(***************************************************************************)
(* Properties of the speed estimator.                                      *)
(***************************************************************************)

\* C10: when the estimator dequeues a timestamp equal to the previous one
\* it makes no put on speed_actual, the register keeps its value, and the
\* estimator is back waiting for the next edge.
C10_ZeroIntervalDropped ==
    [][ (/\ est_pc = "run" /\ edge_time # <<>>
         /\ Head(edge_time) = last_time
         /\ \/ Len(edge_time') < Len(edge_time)
            \/ isr_pending' # isr_pending /\ isr_pending' = <<>>)
        => /\ speed_actual' = speed_actual
           /\ pubs' = pubs
           /\ last_time' = last_time
           /\ est_pc' = "run" ]_vars

\* two edges consumed, the second with a zero interval: one publication
C10_Witness ==
    /\ est_pc = "run"
    /\ nEdges = 2
    /\ edge_time = <<>>
    /\ pubs = 1
    /\ speed_actual = 120
    /\ last_time = micros


\* C11: for every dequeued timestamp whose interval dt_us to the previous
\* one is not 0 the estimator makes exactly one put, of 15 * 1000000 / dt_us
\* RPM, positive when the direction pin is LOW and negative when it is
\* HIGH; an interval of 6000 gives 2500 RPM.
C11_SignedSpeed ==
    [][ LET dt == Sub32(Head(edge_time), last_time)
            mag == IF dt[1] > 228 THEN 0
                   ELSE 15000000 \div (dt[1] * 65536 + dt[2])
        IN  (est_pc = "run" /\ edge_time # <<>> /\ edge_gap' = Tail(edge_gap)
                /\ dt # <<0, 0>>)
            => /\ pubs' = pubs + 1
               /\ speed_actual' = IF PIN_DIR = LOW THEN mag ELSE -mag
               /\ dt = <<0, 6000>> => Abs(speed_actual') = 2500 ]_vars

\* an interval of 6000 microseconds was published in reverse
C11_Witness ==
    /\ est_pc = "run"
    /\ PIN_DIR = HIGH
    /\ pubs > 0
    /\ speed_actual = -2500

\* C11 as stated: the same, but an interval of 6000 gives 166.67 RPM
C11_AsStated ==
    [][ LET dt == Sub32(Head(edge_time), last_time)
            mag == IF dt[1] > 228 THEN 0
                   ELSE 15000000 \div (dt[1] * 65536 + dt[2])
        IN  (est_pc = "run" /\ edge_time # <<>> /\ edge_gap' = Tail(edge_gap)
                /\ dt # <<0, 0>>)
            => /\ pubs' = pubs + 1
               /\ speed_actual' = IF PIN_DIR = LOW THEN mag ELSE -mag
               /\ dt = <<0, 6000>> => Abs(speed_actual') \in {166, 167} ]_vars

\* C12: when the estimator dequeues an edge that came g ticks after the
\* timestamp it holds as the previous one, it measures g, also when the
\* timer wrapped in between: g = 0 publishes nothing, any other g
\* publishes the speed of an interval of g ticks.
C12_WrapSafeInterval ==
    [][ (est_pc = "run" /\ edge_time # <<>> /\ edge_gap' = Tail(edge_gap)
            /\ Head(edge_gap) # NoGap)
        => IF Head(edge_gap) = <<0, 0>>
           THEN pubs' = pubs
           ELSE /\ pubs' = pubs + 1
                /\ Abs(speed_actual') = RpmMagnitude(Head(edge_gap)) ]_vars

\* the timer wrapped between two edges 125000 ticks apart; both published
C12_Witness ==
    /\ est_pc = "run"
    /\ nEdges = 2
    /\ edge_time = <<>>
    /\ pubs = 2
    /\ last_time = <<0, 25000>>
    /\ Abs(speed_actual) = 120

\* C13: every run of the edge handler returns: after each rising edge no
\* handler is left waiting in its enqueue.
C13_HandlerReturns ==
    [][ nEdges' = nEdges + 1 => isr_pending' = <<>> ]_vars


(***************************************************************************)
(* C14: every channel is fixed-capacity.  In every reachable state         *)
(* edge_time holds at most 4 entries, speed_cmd at most 2 and torque_cmd   *)
(* at most 2; a put on a full channel waits and never grows the channel.   *)
(***************************************************************************)
C14_ChannelsBounded ==
    /\ Len(edge_time) <= EDGE_TIME_SIZE
    /\ Len(speed_cmd) <= SPEED_CMD_SIZE
    /\ Len(torque_cmd) <= TORQUE_CMD_SIZE

\* all three channels full, with the edge handler and task_calcSetpoint
\* each holding an item they could not enqueue
C14_Witness ==
    /\ Len(edge_time) = EDGE_TIME_SIZE
    /\ isr_pending # <<>>
    /\ Len(speed_cmd) = SPEED_CMD_SIZE
    /\ cs_pc = "put"
    /\ Len(torque_cmd) = TORQUE_CMD_SIZE

\* a step of task_calcSetpoint that runs calculate_omega
CalculateOmegaStep == cs_pc = "get" /\ cs_pc' = "put"

(***************************************************************************)
(* C15: the integration step is 1 ms when the unsigned difference          *)
(* now_ms - last_update_ms is 0, 1 s when it is 1 s or more, and the       *)
(* difference itself otherwise.                                            *)
(***************************************************************************)
C15_StepClamped ==
    [][ CalculateOmegaStep =>
          LET elapsed == Sub32(millis, last_update_ms) IN
            /\ elapsed = <<0, 0>> => dt_s' = 1
            /\ elapsed[1] > 0 \/ elapsed[2] >= 1000 => dt_s' = 1000
            /\ elapsed[1] = 0 /\ elapsed[2] \in 1..999 => dt_s' = elapsed[2]
      ]_vars

\* a second command in the same millisecond as the first: the first ran
\* with the 1 s ceiling, the second with the 1 ms floor
C15_Witness ==
    /\ cs_pc = "put"
    /\ dt_s = 1
    /\ last_update_ms = millis
    /\ \E r \in runs : r.dt = 1000

(***************************************************************************)
(* C16: for a torque command of 0 the speed command is the published       *)
(* actual speed, limited to the range -2500 .. +2500 RPM.                  *)
(***************************************************************************)
C16_ZeroTorqueHoldsSpeed ==
    [][ CalculateOmegaStep /\ QFront(torque_cmd) = 0 =>
          omega' = IF speed_actual > RPM_MAX THEN RPM_MAX
                   ELSE IF speed_actual < -RPM_MAX THEN -RPM_MAX
                   ELSE speed_actual
      ]_vars

\* torque 0 at -120 RPM gave -120, and torque 0 at -3000 RPM gave -2500
C16_Witness ==
    /\ \E r \in runs : r.torque = 0 /\ r.actual = -120 /\ r.rpm = -120
    /\ \E r \in runs : r.torque = 0 /\ r.actual = -3000 /\ r.rpm = -RPM_MAX

\* C16 as stated: the speed command equals the published actual speed for
\* every value of the actual speed
C16_AsStated ==
    [][ CalculateOmegaStep /\ QFront(torque_cmd) = 0 => omega' = speed_actual
      ]_vars

(***************************************************************************)
(* C17: the RPM calculate_omega returns, and every value on speed_cmd,     *)
(* lies in -2500 .. +2500.                                                 *)
(***************************************************************************)
C17_SpeedCommandBounded ==
    /\ omega \in -RPM_MAX .. RPM_MAX
    /\ \A i \in DOMAIN speed_cmd : speed_cmd[i] \in -RPM_MAX .. RPM_MAX

\* 1 N m over the 1 s ceiling from rest is 584 rad/s before the clamp
C17_Witness ==
    /\ \E r \in runs : /\ r.torque = 1000000 /\ r.dt = 1000 /\ r.actual = 0
                        /\ r.rpm = RPM_MAX
    /\ \E i \in DOMAIN speed_cmd : speed_cmd[i] = RPM_MAX

(***************************************************************************)
(* C18: two runs of calculate_omega with the same torque, the same         *)
(* effective dt and the same actual speed return the same speed command,   *)
(* whatever omega_rad_s held before each run.                              *)
(***************************************************************************)
C18_Stateless ==
    \A r1, r2 \in runs :
        r1.torque = r2.torque /\ r1.dt = r2.dt /\ r1.actual = r2.actual
            => r1.rpm = r2.rpm

\* the same inputs twice, the second time with a non-zero stored omega_rad_s
C18_Witness ==
    \E r1, r2 \in runs :
        /\ r1.torque = 1712 /\ r2.torque = 1712
        /\ r1.dt = r2.dt /\ r1.actual = r2.actual
        /\ r1.stored = 0 /\ r2.stored # 0
        /\ r1.rpm = r2.rpm /\ r1.rpm # 0

\* the call a step makes, and the bus events the step adds
SpiStep == Len(spi_calls') = Len(spi_calls) + 1
SpiCall == spi_calls'[Len(spi_calls')]
SpiFrame == SubSeq(spi_bus', Len(spi_bus) + 1, Len(spi_bus'))

(***************************************************************************)
(* C19: drv_write raises chip select, sends exactly three bytes, the       *)
(* address with the top bit 0, then the high byte, then the low byte of    *)
(* the value, and lowers chip select; chip select is low between           *)
(* transactions.                                                           *)
(***************************************************************************)
C19_WriteFraming ==
    [][ SpiStep /\ SpiCall.op = "drv_write" =>
          /\ PIN_SCS = LOW /\ PIN_SCS' = LOW
          /\ SubSeq(spi_bus', 1, Len(spi_bus)) = spi_bus
          /\ Len(SpiFrame) = 5
          /\ SpiFrame[1] = Scs(HIGH) /\ SpiFrame[5] = Scs(LOW)
          /\ \A i \in 2 .. 4 : /\ SpiFrame[i][1] = "mosi"
                                /\ SpiFrame[i][2] \in 0 .. 255
          /\ SpiFrame[2][2] < 128
          /\ (SpiCall.addr7 - SpiFrame[2][2]) % 128 = 0
          /\ SpiFrame[3][2] * 256 + SpiFrame[4][2] = SpiCall.message
      ]_vars

\* drv_write(0x03, 0xFC2) has put [0x03, 0x0F, 0xC2] on the bus
C19_Witness ==
    /\ Len(spi_calls) = 1
    /\ spi_calls[1] = [op |-> "drv_write", addr7 |-> 3, message |-> 4034]
    /\ spi_bus = <<Scs(HIGH), Mosi(3), Mosi(15), Mosi(194), Scs(LOW)>>
    /\ PIN_SCS = LOW

(***************************************************************************)
(* C20: drv_read sends the header 0x80 | (address & 0x7F) inside a chip    *)
(* select window, clocks in two bytes b1 then b2, and returns              *)
(* (b1 << 8) | b2.                                                         *)
(***************************************************************************)
C20_ReadFraming ==
    [][ SpiStep /\ SpiCall.op = "drv_read" =>
          /\ PIN_SCS = LOW /\ PIN_SCS' = LOW
          /\ Len(SpiFrame) = 7
          /\ SpiFrame[1] = Scs(HIGH) /\ SpiFrame[7] = Scs(LOW)
          /\ SpiFrame[2][1] = "mosi" /\ SpiFrame[2][2] \in 128 .. 255
          /\ (SpiCall.addr7 - SpiFrame[2][2]) % 128 = 0
          /\ SpiFrame[3] = Mosi(0) /\ SpiFrame[5] = Mosi(0)
          /\ SpiFrame[4][1] = "miso" /\ SpiFrame[6][1] = "miso"
          /\ data16' = SpiFrame[4][2] * 256 + SpiFrame[6][2]
      ]_vars

\* drv_read(0x83) with 0x0F then 0xC2 on MISO has sent 0x83 and returned
\* 0x0FC2
C20_Witness ==
    /\ Len(spi_calls) = 1
    /\ spi_calls[1].op = "drv_read" /\ spi_calls[1].addr7 = 131
    /\ spi_bus = <<Scs(HIGH), Mosi(131), Mosi(0), Miso(15), Mosi(0),
                   Miso(194), Scs(LOW)>>
    /\ data16 = 4034

(***************************************************************************)
(* C21: cmd_speed_PWM(rpm) sets the CLKIN frequency to rpm / 15, and to 0  *)
(* for rpm = 0; every value the state machine passes to it is 0 or         *)
(* |speed_command|, so never negative.  hw holds the driver calls of the   *)
(* latest loop iteration; clkin is in mHz, rounded down.                   *)
(***************************************************************************)
C21_ClockFollowsCommand ==
    /\ clkin >= 0
    /\ \A i \in DOMAIN hw :
          hw[i].op = "cmd_speed_PWM" =>
            /\ hw[i].arg \in {0, Abs(speed_command)}
            /\ hw[i].arg >= 0
            /\ clkin * RPM_PER_HZ <= hw[i].arg * 1000
            /\ hw[i].arg * 1000 < (clkin + 1) * RPM_PER_HZ
            /\ hw[i].arg = 0 => clkin = 0

\* the command -100 has been reached through a crossing: cmd_speed_PWM(100)
\* was called and CLKIN runs at 6.666 Hz
C21_Witness ==
    /\ speed_command = -100
    /\ hw = <<SetDir(HIGH), Unbrake, CmdSpeed(100)>>
    /\ clkin = 6666

(***************************************************************************)
(* C22: speed_actual holds 0 until task_readActual has processed an edge   *)
(* with a non-zero interval; every such edge publishes; the register       *)
(* changes only when task_readActual publishes, so steps of                *)
(* task_calcSetpoint and task_speedControl leave it unchanged.             *)
(***************************************************************************)
C22_RegisterOwnedByEstimator ==
    /\ [](pubs = 0 => speed_actual = 0)
    /\ [][ /\ speed_actual' # speed_actual
                 => est_pc = "run" /\ edge_time # <<>> /\ pubs' = pubs + 1
           /\ est_pc = "run" /\ edge_time # <<>>
                /\ edge_gap' = Tail(edge_gap)
                /\ Sub32(Head(edge_time), last_time) # <<0, 0>>
                 => pubs' = pubs + 1
           /\ cs_pc' # cs_pc \/ sc_pc' # sc_pc \/ hw' # hw
                 => speed_actual' = speed_actual /\ pubs' = pubs ]_vars

\* the integrator and the state machine have both run, the second time
\* from a published speed of -120 RPM
C22_Witness ==
    /\ pubs > 0
    /\ speed_actual = -120
    /\ speed_real = -120
    /\ \E r \in runs : r.actual = -120
    /\ deq # <<>>

\* a task has executed a step
TaskStarted ==
    est_pc # "start" \/ sc_pc # "start" \/ runs # {} \/ nTorque > 0

WritesDir == \E i \in DOMAIN hw' : hw'[i] \in {SetDir(LOW), SetDir(HIGH)}

(***************************************************************************)
(* C24: set_dir is called only by task_speedControl: once before its loop  *)
(* (to LOW) and then only in the crossing states 3 and 4; the direction    *)
(* pin changes in no other step.  A crossing state is entered only from    *)
(* Decelerating, in an iteration whose speed_real had magnitude below 20,  *)
(* so a reversal always follows such an iteration.                         *)
(***************************************************************************)
C24_DirectionOnlyAtCrossing ==
    [][ /\ (hw' # hw /\ WritesDir) \/ PIN_DIR' # PIN_DIR
            => \/ sc_pc = "start" /\ PIN_DIR' = LOW
               \/ sc_pc = "dispatch" /\ speed_state \in {3, 4}
        /\ speed_state' \in {3, 4} /\ speed_state' # speed_state
            => /\ sc_pc = "dispatch" /\ speed_state = 2
               /\ Abs(speed_real) < DEADBAND
               /\ PIN_DIR' = PIN_DIR ]_vars

\* a braking iteration read 15 RPM with the command 0 pending in reverse
\* and entered CrossingNegToPos
C24_Witness ==
    /\ sc_pc = "read"
    /\ speed_state = 3
    /\ PIN_DIR = HIGH
    /\ PIN_BRAKE = HIGH
    /\ Abs(speed_real) < DEADBAND
    /\ hw = <<>>

\* C24 as stated: whenever the direction pin is reversed, the speed most
\* recently read from speed_actual is inside the deadband around zero
C24_AsStated ==
    [][ PIN_DIR' # PIN_DIR => Abs(speed_real) < DEADBAND ]_vars

\* the pin levels just before the i-th driver call of the step
PinsBeforeCall(i) ==
    PinsAfter([dir |-> PIN_DIR, brake |-> PIN_BRAKE, clkin |-> clkin],
              SubSeq(hw', 1, i - 1))

(***************************************************************************)
(* C25: while the brake pin is high the CLKIN frequency is 0.  Within an   *)
(* iteration, cmd_speed_PWM with a non-zero speed is called only with the  *)
(* brake already released (unbrake comes first), and brake is called only  *)
(* with the frequency already 0 (cmd_speed_PWM(0) comes first).            *)
(***************************************************************************)
C25_NoDriveWhileBraking ==
    /\ [](PIN_BRAKE = HIGH => clkin = 0)
    /\ [][ sc_pc = "dispatch" /\ sc_pc' = "read" =>
             \A i \in DOMAIN hw' :
               /\ hw'[i].op = "cmd_speed_PWM" /\ hw'[i].arg # 0
                    => PinsBeforeCall(i).brake = LOW
               /\ hw'[i] = Brake => PinsBeforeCall(i).clkin = 0 ]_vars

\* braking from 120 RPM to the command 100 has ended: unbrake, then
\* cmd_speed_PWM(100)
C25_Witness ==
    /\ sc_pc = "read"
    /\ speed_state = 0
    /\ speed_command = 100
    /\ hw = <<Unbrake, CmdSpeed(100)>>
    /\ PIN_BRAKE = LOW
    /\ clkin = ToneOf(100)

(***************************************************************************)
(* C27: at every loop-iteration boundary the brake pin is high exactly     *)
(* when the state is Decelerating (2) or one of the crossing states        *)
(* (3, 4); in Idle (0) and Accelerating (1) it is low.                     *)
(***************************************************************************)
C27_BrakeFollowsState ==
    sc_pc \in {"start", "read", "dispatch"} =>
        (PIN_BRAKE = HIGH <=> speed_state \in {2, 3, 4})

\* the machine has left each of the braking states once and is in
\* Accelerating with the brake released
C27_Witness ==
    /\ sc_pc = "read"
    /\ speed_state = 1
    /\ PIN_BRAKE = LOW
    /\ hw = <<SetDir(LOW), Unbrake, CmdSpeed(0)>>
    /\ Len(deq) = 2

(***************************************************************************)
(* C28: whenever the state machine is in Accelerating, the direction pin   *)
(* is LOW if speed_command >= 0 and HIGH if speed_command < 0.             *)
(***************************************************************************)
C28_AccelDirectionAgrees ==
    speed_state = 1 => (PIN_DIR = LOW <=> speed_command >= 0)

(***************************************************************************)
(* C26: with the control loop scheduled fairly and the measured speed      *)
(* following the drive, whenever the state machine has left Idle it        *)
(* eventually returns to Idle.                                             *)
(***************************************************************************)
C26_ReturnsToIdle == (speed_state # 0) ~> (speed_state = 0)

(***************************************************************************)
(* C29: last_update_ms is 0 until the first calculate_omega call, every    *)
(* call sets it to the current time and no other step changes it; the      *)
(* first call integrates over the time since boot clamped to at most 1 s,  *)
(* every later call over the clamped time since the call before it.        *)
(***************************************************************************)
C29_TimestampOnlyInCalculateOmega ==
    [][ /\ last_update_ms' # last_update_ms => CalculateOmegaStep
        /\ runs = {} => last_update_ms = <<0, 0>>
        /\ CalculateOmegaStep =>
              /\ last_update_ms' = millis
              /\ dt_s' = EffectiveDt(Sub32(millis, last_update_ms))
              /\ runs = {} =>
                    dt_s' = IF millis[1] > 0 \/ millis[2] >= 1000
                            THEN 1000 ELSE millis[2]
      ]_vars

\* a first call over the 1 s ceiling and a later call 500 ms after it
C29_Witness ==
    /\ cs_pc = "put"
    /\ last_update_ms = millis
    /\ millis = ToU32(BOOT_DELAY_MS + 500)
    /\ dt_s = 500
    /\ \E r \in runs : r.dt = 1000

====
